---- MODULE Spec2Model ----
(***************************************************************************)
(* Model of extract_query_subset.py: the resumable, ID-filtered extraction *)
(* of the records named by a query workload out of a bucket of parquet     *)
(* files, with its output log, its state (checkpoint) file, and the        *)
(* heartbeat thread.  One behaviour is a sequence of runs of main() over   *)
(* the same disk; a run may be killed at any point.                        *)
(***************************************************************************)
EXTENDS Integers, Sequences, FiniteSets, TLC

\* ------------------------------------------------------------- bounds
MaxId == 2        \* record IDs are 1..MaxId
MaxFiles == 2     \* parquet file names are 1..MaxFiles
MaxKeys == 2      \* keys of a workload document
MaxVals == 2      \* values per key of a workload document
MaxBad == 1       \* malformed lines of one output log

IDs == 1..MaxId
Names == 1..MaxFiles

\* last_file = None, and a state file that does not exist
None == 0
\* a state file that exists but does not parse (open(..., "wt") truncated it)
Unreadable == -1

VARIABLES
    \* the environment, fixed during a behaviour
    queries,        \* what load_query_ids(args.queries) returns in the runs
    bucket,         \* file name -> set of record IDs stored in that file
    dupId,          \* an ID stored twice in every file holding it (0: none)
    \* the disk
    outFile,        \* args.out: sequence of lines, each a dumped row
    stateFile,      \* args.state: None, Unreadable, or the name in last_file
    \* the process running main()
    pc,
    resume,         \* args.resume
    query_ids, found_ids, last_file, remaining, written, start_idx,
    idx,            \* position in files (1-based) of the loop's file_path
    rows,           \* rows of the table not yet processed
    buf,            \* lines written to f and still in its buffer
    outOpen,        \* f is open
    progress,       \* files_done, files_total, last_file
    progress_lock,  \* "free" or "main"
    stop_event,
    hb,             \* heartbeat thread: "off", "test", "tosleep", "sleep", "exit"
    \* history of the runs
    chained,        \* fixed: prior and harm are kept from one run to the
                    \* next run with --resume
    paired,         \* fixed: freshPrev is kept
    reads,          \* positions of the files read by this run
    lastOutcome,    \* in the loop, how the read of the latest file ended:
                    \* "none", "rows", "empty", "error"
    foundAtRead,    \* found_ids when the read of the current file was issued
    hydrated,       \* found_ids after startup
    logAtStart,     \* outFile when the run started, kept until the checks
    stateAtStart,   \* stateFile when the run started, kept until the checks
    harm,           \* a read error skipped a file that held IDs still in
                    \* remaining: in this run and, when chained, in the
                    \* runs before it back to the last fresh start
    prior,          \* k when the previous run was stopped between two files
                    \* with files 1..k completed, else 0
    freshPrev,      \* the log's IDs after the previous fresh run that ran to
                    \* completion with no such skip
    \* load_query_ids, step by step
    doc, ldpc, ldk, ldi, ids,
    \* the reporter thread
    snap,           \* lines 116-118: the values read on the last round
    \* the disk, in more detail
    stale,          \* when chained: the state file was written before the
                    \* latest truncation of the log
    torn            \* the log ends with the first part of a line

envVars == <<queries, bucket, dupId>>
diskVars == <<outFile, stateFile>>
memVars == <<resume, query_ids, found_ids, last_file, remaining, written,
             start_idx, idx, rows, buf, outOpen, progress, progress_lock,
             stop_event, hb>>
histVars == <<chained, paired, reads, lastOutcome, foundAtRead, hydrated, logAtStart,
              stateAtStart, harm, prior, freshPrev>>
loadVars == <<doc, ldpc, ldk, ldi, ids>>
auxVars == <<snap, stale, torn>>
vars == <<envVars, diskVars, pc, memVars, histVars, loadVars, auxVars>>

\* ------------------------------------------------------------ helpers
RECURSIVE SortedSeq(_)
\* sorted(fs.glob(...)): the names in increasing order
SortedSeq(S) ==
    IF S = {} THEN << >>
    ELSE LET m == CHOOSE x \in S : \A y \in S : x <= y
         IN <<m>> \o SortedSeq(S \ {m})

files == SortedSeq(DOMAIN bucket)

\* files.index(name) + 1, for a name in files
IndexPlusOne(fs, name) == CHOOSE i \in 1..Len(fs) : fs[i] = name

InFiles(fs, name) == \E i \in 1..Len(fs) : fs[i] = name

\* json.dumps(row) for a row of the table whose id is rid
DumpRow(rid) == [id |-> rid]

\* a line json.loads rejects: a record written right after the first part of
\* another one, with no line end between them
Malformed == [id |-> None]

\* lines 78-86: int(json.loads(line).get("id")) over the lines of the output
\* log; a line that raises JSONDecodeError is skipped, as is the part of a
\* line at the end of a torn log
HydrateIds(log) == {log[i].id : i \in {j \in DOMAIN log : log[j] # Malformed}}

\* lines written out to a log: after the first part of a line, the first of
\* them continues that line
WriteOut(log, t, lines) ==
    IF lines = << >> THEN log
    ELSE IF t THEN (log \o <<Malformed>>) \o Tail(lines)
    ELSE log \o lines

\* the log still ends inside a line after the lines were written out
TornAfter(t, lines) == t /\ lines = << >>

RECURSIVE RowsOf(_, _)
\* the rows of a file whose id is in S, in increasing id; dupId comes twice
RowsOf(S, d) ==
    IF S = {} THEN << >>
    ELSE LET m == CHOOSE x \in S : \A y \in S : x <= y
         IN (IF m = d THEN <<m, m>> ELSE <<m>>) \o RowsOf(S \ {m}, d)

\* pq.read_table(file_path, filters=[("id", "in", sorted(remaining))])
ReadTable(name, rem) == RowsOf(bucket[name] \cap rem, dupId)

NoProgress == [files_done |-> 0, files_total |-> 0, last_file |-> None]
NoFresh == [set |-> FALSE, ids |-> {}]

Running == {"load", "list", "hydrate", "spawn", "open", "loop", "read", "rows",
            "ckpt", "ckpt_w", "prog1", "prog2", "close", "report", "exiting"}

\* ---------------------------------------------------------------- Init
MemInit ==
    /\ resume = FALSE /\ query_ids = {} /\ found_ids = {} /\ last_file = None
    /\ remaining = {} /\ written = 0 /\ start_idx = 0 /\ idx = 0
    /\ rows = << >> /\ buf = << >> /\ outOpen = FALSE
    /\ progress = NoProgress /\ progress_lock = "free"
    /\ stop_event = FALSE /\ hb = "off"

HistInit ==
    /\ reads = {} /\ lastOutcome = "none" /\ foundAtRead = {} /\ hydrated = {}
    /\ logAtStart = << >> /\ stateAtStart = None /\ harm = FALSE
    /\ prior = 0 /\ freshPrev = NoFresh

AuxInit == snap = NoProgress /\ stale = FALSE /\ torn = FALSE

LoadIdle == doc = << >> /\ ldpc = "off" /\ ldk = 0 /\ ldi = 0 /\ ids = {}

\* IDs only name records, so the target is 1..t; a file's records outside the
\* target never pass the pushed-down filter and are left out of the bucket.
Init ==
    /\ queries \in {1..t : t \in 0..MaxId}
    /\ bucket \in UNION {[S -> SUBSET queries] : S \in SUBSET Names}
    /\ dupId \in {0} \cup (queries \cap {1})
    /\ outFile = << >> /\ stateFile = None
    /\ pc = "idle"
    /\ chained = FALSE /\ paired = FALSE
    /\ MemInit /\ HistInit /\ AuxInit /\ LoadIdle

\* the same, with the history of stops kept across runs
InitChained ==
    /\ queries \in {1..t : t \in 0..MaxId}
    /\ bucket \in UNION {[S -> SUBSET queries] : S \in SUBSET Names}
    /\ dupId \in {0} \cup (queries \cap {1})
    /\ outFile = << >> /\ stateFile = None
    /\ pc = "idle"
    /\ chained = TRUE /\ paired = FALSE
    /\ MemInit /\ HistInit /\ AuxInit /\ LoadIdle

\* the same, with the result of the previous fresh run kept
InitPaired ==
    /\ queries \in {1..t : t \in 0..MaxId}
    /\ bucket \in UNION {[S -> SUBSET queries] : S \in SUBSET Names}
    /\ dupId \in {0} \cup (queries \cap {1})
    /\ outFile = << >> /\ stateFile = None
    /\ pc = "idle"
    /\ chained = FALSE /\ paired = TRUE
    /\ MemInit /\ HistInit /\ AuxInit /\ LoadIdle

\* the same, where an earlier run may have left a state file naming a parquet
\* file that is no longer in the bucket
InitStale ==
    /\ queries \in {1..t : t \in 0..MaxId}
    /\ bucket \in UNION {[S -> SUBSET queries] : S \in SUBSET Names}
    /\ dupId \in {0} \cup (queries \cap {1})
    /\ outFile = << >> /\ stateFile \in {None} \cup (Names \ DOMAIN bucket)
    /\ pc = "idle"
    /\ chained = FALSE /\ paired = FALSE
    /\ MemInit /\ HistInit /\ AuxInit /\ LoadIdle

\* one run, over the disk a killed run may have left: an empty log and a
\* state file naming a file that gave rows
InitFair ==
    /\ queries \in {1..t : t \in 0..MaxId}
    /\ bucket \in UNION {[S -> SUBSET queries] : S \in SUBSET Names}
    /\ dupId = 0
    /\ outFile = << >>
    /\ stateFile \in {None} \cup {n \in DOMAIN bucket : bucket[n] # {}}
    /\ pc = "idle"
    /\ chained = FALSE /\ paired = FALSE
    /\ MemInit /\ HistInit /\ AuxInit /\ LoadIdle

\* ------------------------------------------------------------ startup
\* a run of main() starts: nothing is running, memory is fresh
Start(r) ==
    /\ pc \in {"idle", "done", "aborted"}
    /\ pc' = "load"
    /\ resume' = r
    /\ query_ids' = {} /\ found_ids' = {} /\ last_file' = None
    /\ remaining' = {} /\ written' = 0 /\ start_idx' = 0 /\ idx' = 0
    /\ rows' = << >> /\ buf' = << >> /\ outOpen' = FALSE
    /\ progress' = NoProgress /\ progress_lock' = "free"
    /\ stop_event' = FALSE /\ hb' = "off"
    /\ reads' = {} /\ lastOutcome' = "none" /\ foundAtRead' = {}
    /\ hydrated' = {}
    /\ logAtStart' = outFile /\ stateAtStart' = stateFile
    /\ harm' = (chained /\ r /\ harm)
    /\ prior' = IF chained /\ r /\ pc = "idle" THEN prior ELSE 0
    /\ freshPrev' = IF paired /\ pc = "done" /\ ~resume /\ ~harm
                    THEN [set |-> TRUE, ids |-> HydrateIds(outFile)]
                    ELSE freshPrev
    /\ UNCHANGED <<envVars, diskVars, chained, paired, loadVars, auxVars>>

\* lines 65-66: an empty target set raises RuntimeError
AfterLoad(qids) == IF qids = {} THEN "aborted" ELSE "list"

\* lines 64-66
LoadQueries ==
    /\ pc = "load"
    /\ query_ids' = queries
    /\ pc' = AfterLoad(queries)
    /\ UNCHANGED <<envVars, diskVars, resume, found_ids, last_file, remaining,
                   written, start_idx, idx, rows, buf, outOpen, progress,
                   progress_lock, stop_event, hb, histVars, loadVars, auxVars>>

\* variant: the check of lines 70-71 is missing
AfterListNoCheck(fs) == "hydrate"

\* lines 70-71: no parquet file raises RuntimeError
AfterList(fs) == IF fs = << >> THEN "aborted" ELSE "hydrate"

\* lines 68-71
ListFiles ==
    /\ pc = "list"
    /\ pc' = AfterList(files)
    /\ UNCHANGED <<envVars, diskVars, memVars, histVars, loadVars, auxVars>>

\* lines 76-86: found_ids from the existing output log, on --resume only
HydratedFound(res, log) == IF res THEN HydrateIds(log) ELSE {}

\* variant: the state file is read without --resume too
LoadLastFileAlways(res, sf) == IF sf # None /\ sf # Unreadable THEN sf ELSE None

\* lines 87-93: last_file from the state file, on --resume only
LoadLastFile(res, sf) == IF res /\ sf # None /\ sf # Unreadable THEN sf ELSE None

\* variant: remaining is not reduced by the hydrated IDs
RemainingAll(qids, found) == qids

\* line 95
Remaining(qids, found) == qids \ found

\* variant: files.index(last_file) without the + 1
StartIdxNoPlusOne(lf, fs) ==
    IF lf # None /\ InFiles(fs, lf) THEN IndexPlusOne(fs, lf) - 1 ELSE 0

\* lines 98-100
StartIdx(lf, fs) == IF lf # None /\ InFiles(fs, lf) THEN IndexPlusOne(fs, lf) ELSE 0

\* lines 73-107
Hydrate ==
    /\ pc = "hydrate"
    /\ found_ids' = HydratedFound(resume, outFile)
    /\ last_file' = LoadLastFile(resume, stateFile)
    /\ remaining' = Remaining(query_ids, found_ids')
    /\ written' = 0
    /\ start_idx' = StartIdx(last_file', files)
    /\ idx' = start_idx' + 1
    /\ progress' = [files_done |-> 0, files_total |-> Len(files) - start_idx',
                    last_file |-> None]
    /\ hydrated' = found_ids'
    /\ logAtStart' = << >> /\ stateAtStart' = None
    /\ pc' = "spawn"
    /\ UNCHANGED <<envVars, diskVars, resume, query_ids, rows, buf, outOpen,
                   progress_lock, stop_event, hb, chained, paired, reads,
                   lastOutcome, foundAtRead, harm, prior, freshPrev, loadVars, auxVars>>

\* lines 127-128: the thread is started, at position h of heartbeat()
StartThread(h) ==
    /\ pc = "spawn"
    /\ hb' = h
    /\ pc' = "open"
    /\ UNCHANGED <<envVars, diskVars, resume, query_ids, found_ids, last_file,
                   remaining, written, start_idx, idx, rows, buf, outOpen,
                   progress, progress_lock, stop_event, histVars, loadVars, auxVars>>

\* the thread taken round by round: it starts in its first sleep
StartHeartbeat == StartThread("sleep")

\* the thread taken statement by statement: it starts at its loop test
StartReporter == StartThread("test")

\* line 130: "at" keeps the log, "wt" truncates it
OpenedLog(res, log) == IF res THEN log ELSE << >>

\* lines 130-131
OpenOut ==
    /\ pc = "open"
    /\ outFile' = OpenedLog(resume, outFile)
    /\ torn' = (resume /\ torn)
    /\ stale' = IF chained /\ ~resume THEN stateFile \notin {None, Unreadable}
                ELSE stale
    /\ outOpen' = TRUE
    /\ pc' = "loop"
    /\ UNCHANGED <<envVars, stateFile, resume, query_ids, found_ids, last_file,
                   remaining, written, start_idx, idx, rows, buf, progress,
                   progress_lock, stop_event, hb, histVars, loadVars, snap>>

\* ----------------------------------------------------------- the loop
\* variant: the loop without the break of lines 133-134
LoopEndsNoBreak(i, fs, rem) == i > Len(fs)

\* lines 132-134: the slice is exhausted, or remaining is empty
LoopEnds(i, fs, rem) == i > Len(fs) \/ rem = {}

\* lines 132-134
LoopHead ==
    /\ pc = "loop"
    /\ pc' = IF LoopEnds(idx, files, remaining) THEN "close" ELSE "read"
    /\ lastOutcome' = IF LoopEnds(idx, files, remaining) THEN "none" ELSE lastOutcome
    /\ UNCHANGED <<envVars, diskVars, memVars, chained, paired, reads,
                   foundAtRead, hydrated, logAtStart, stateAtStart, harm, prior,
                   freshPrev, loadVars, auxVars>>

\* lines 136-143 and 151: the read returns a table
ReadOk ==
    /\ pc = "read"
    /\ LET table == ReadTable(files[idx], remaining)
       IN /\ rows' = table
          /\ pc' = IF table = << >> THEN "prog1" ELSE "rows"
          /\ lastOutcome' = IF table = << >> THEN "empty" ELSE "rows"
    /\ reads' = reads \cup {idx}
    /\ foundAtRead' = found_ids
    /\ UNCHANGED <<envVars, diskVars, resume, query_ids, found_ids, last_file,
                   remaining, written, start_idx, idx, buf, outOpen, progress,
                   progress_lock, stop_event, hb, chained, paired, hydrated,
                   logAtStart, stateAtStart, harm, prior, freshPrev, loadVars, auxVars>>

\* variant: no except clause, the error ends the run
AfterReadErrorAbort == "aborted"

\* lines 144-149: except Exception, the file is skipped and the loop goes on
AfterReadError == "prog1"

\* lines 144-145: the read raises
ReadError ==
    /\ pc = "read"
    /\ pc' = AfterReadError
    /\ lastOutcome' = "error"
    /\ reads' = reads \cup {idx}
    /\ harm' = (harm \/ bucket[files[idx]] \cap remaining # {})
    /\ foundAtRead' = found_ids
    /\ UNCHANGED <<envVars, diskVars, memVars, chained, paired, hydrated,
                   logAtStart, stateAtStart, prior, freshPrev, loadVars, auxVars>>

\* variant: the id of a written row stays in remaining
RemoveIdNever(rem, rid) == rem

\* lines 164-165: if pid in remaining: remaining.remove(pid)
RemoveId(rem, rid) == IF rid \in rem THEN rem \ {rid} ELSE rem

\* lines 158-170, one row.  f.write leaves the line in the buffer of f
\* ("keep"), or the full buffer is written out first ("spill"), or the
\* buffer is written out with the line ("all").
WriteRow(fl) ==
    /\ pc = "rows"
    /\ LET rid == Head(rows)
           line == DumpRow(rid)
       IN /\ found_ids' = found_ids \cup {rid}
          /\ remaining' = RemoveId(remaining, rid)
          /\ \/ fl = "keep" /\ buf' = Append(buf, line)
                /\ outFile' = outFile /\ torn' = torn
             \/ fl = "spill" /\ buf # << >>
                /\ buf' = <<line>>
                /\ outFile' = WriteOut(outFile, torn, buf)
                /\ torn' = TornAfter(torn, buf)
             \/ fl = "all" /\ buf' = << >>
                /\ outFile' = WriteOut(outFile, torn, Append(buf, line))
                /\ torn' = TornAfter(torn, Append(buf, line))
    /\ written' = written + 1
    /\ rows' = Tail(rows)
    /\ pc' = IF Tail(rows) = << >> THEN "ckpt" ELSE "rows"
    /\ UNCHANGED <<envVars, stateFile, resume, query_ids, last_file, start_idx,
                   idx, outOpen, progress, progress_lock, stop_event, hb,
                   histVars, loadVars, snap, stale>>

\* line 171: open(args.state, "wt") truncates the state file
StateTruncate ==
    /\ pc = "ckpt"
    /\ stateFile' = Unreadable
    /\ pc' = "ckpt_w"
    /\ UNCHANGED <<envVars, outFile, memVars, histVars, loadVars, auxVars>>

\* line 172 and the close of state_f
StateDump ==
    /\ pc = "ckpt_w"
    /\ stateFile' = files[idx]
    /\ stale' = FALSE
    /\ pc' = "prog1"
    /\ UNCHANGED <<envVars, outFile, memVars, histVars, loadVars, snap, torn>>

\* lines 146-147, 152-153, 174-175: take the lock, files_done += 1
ProgLock ==
    /\ pc = "prog1"
    /\ progress_lock = "free"
    /\ progress_lock' = "main"
    /\ progress' = [progress EXCEPT !.files_done = @ + 1]
    /\ pc' = "prog2"
    /\ UNCHANGED <<envVars, diskVars, resume, query_ids, found_ids, last_file,
                   remaining, written, start_idx, idx, rows, buf, outOpen,
                   stop_event, hb, histVars, loadVars, auxVars>>

\* variant: the loop stays on its file
NextIdxSame(i) == i

\* line 132: the for loop takes the next file of files[start_idx:]
NextIdx(i) == i + 1

\* lines 148-149, 154-155, 176: last_file = file_path, release, next file
ProgSet ==
    /\ pc = "prog2"
    /\ progress' = [progress EXCEPT !.last_file = files[idx]]
    /\ progress_lock' = "free"
    /\ idx' = NextIdx(idx)
    /\ pc' = "loop"
    /\ UNCHANGED <<envVars, diskVars, resume, query_ids, found_ids, last_file,
                   remaining, written, start_idx, rows, buf, outOpen,
                   stop_event, hb, histVars, loadVars, auxVars>>

\* line 131: the with block ends, f is flushed and closed
CloseOut ==
    /\ pc = "close"
    /\ outFile' = WriteOut(outFile, torn, buf)
    /\ torn' = TornAfter(torn, buf)
    /\ buf' = << >>
    /\ outOpen' = FALSE
    /\ pc' = "report"
    /\ UNCHANGED <<envVars, stateFile, resume, query_ids, found_ids, last_file,
                   remaining, written, start_idx, idx, rows, progress,
                   progress_lock, stop_event, hb, histVars, loadVars, snap,
                   stale>>

\* lines 182-187
Report ==
    /\ pc = "report"
    /\ stop_event' = TRUE
    /\ pc' = "exiting"
    /\ UNCHANGED <<envVars, diskVars, resume, query_ids, found_ids, last_file,
                   remaining, written, start_idx, idx, rows, buf, outOpen,
                   progress, progress_lock, hb, histVars, loadVars, auxVars>>

\* main() returns; the daemon thread ends with the process
Exit ==
    /\ pc = "exiting"
    /\ pc' = "done"
    /\ hb' = "off"
    /\ progress_lock' = "free"
    /\ UNCHANGED <<envVars, diskVars, resume, query_ids, found_ids, last_file,
                   remaining, written, start_idx, idx, rows, buf, outOpen,
                   progress, stop_event, histVars, loadVars, auxVars>>

\* the process is killed: memory and the buffer of f are lost, the disk
\* stays; t tells whether the log now ends inside a line
Killed(t) ==
    /\ pc \in Running
    /\ pc' = "idle"
    /\ torn' = t
    /\ resume' = FALSE /\ query_ids' = {} /\ found_ids' = {} /\ last_file' = None
    /\ remaining' = {} /\ written' = 0 /\ start_idx' = 0 /\ idx' = 0
    /\ rows' = << >> /\ buf' = << >> /\ outOpen' = FALSE
    /\ progress' = NoProgress /\ progress_lock' = "free"
    /\ stop_event' = FALSE /\ hb' = "off"
    /\ reads' = {} /\ lastOutcome' = "none" /\ foundAtRead' = {}
    /\ hydrated' = {}
    /\ logAtStart' = << >> /\ stateAtStart' = None
    /\ prior' = IF chained /\ pc = "loop" /\ idx - 1 > start_idx
                THEN idx - 1 ELSE 0
    /\ harm' = (chained /\ harm)
    /\ UNCHANGED <<envVars, diskVars, chained, paired, freshPrev, loadVars, snap, stale>>

\* killed with the bytes of the log ending at a line end
Crash == Killed(torn)

\* killed after the bytes written out from the buffer of f ended inside the
\* first line still in it; MaxBad caps the malformed lines of one log
CrashTorn ==
    /\ outOpen /\ buf # << >>
    /\ Cardinality({i \in DOMAIN outFile : outFile[i] = Malformed}) < MaxBad
    /\ Killed(TRUE)

\* -------------------------------------------------------- the reporter
\* variant: progress is read without the lock
MayReadUnlocked(lock) == TRUE

\* line 114: with progress_lock, the read waits until main has released it
MayRead(lock) == lock = "free"

\* variant: while True
StopTestNever(stop) == FALSE

\* line 112: stop_event.is_set()
StopTest(stop) == stop

\* lines 112-125, one round of the thread: the sleep ends, progress is read
\* with the lock held, the line is printed and stop_event is tested.  The
\* round only reads, so it is one step, taken while the lock is free.
Heartbeat ==
    /\ hb = "sleep"
    /\ pc \in Running
    /\ MayRead(progress_lock)
    /\ hb' = IF StopTest(stop_event) THEN "exit" ELSE "sleep"
    /\ UNCHANGED <<envVars, diskVars, pc, resume, query_ids, found_ids,
                   last_file, remaining, written, start_idx, idx, rows, buf,
                   outOpen, progress, progress_lock, stop_event, histVars,
                   loadVars, auxVars>>

\* The thread statement by statement.
\* line 112: the loop test
HbTest ==
    /\ hb = "test"
    /\ pc \in Running
    /\ hb' = IF StopTest(stop_event) THEN "exit" ELSE "tosleep"
    /\ UNCHANGED <<envVars, diskVars, pc, resume, query_ids, found_ids,
                   last_file, remaining, written, start_idx, idx, rows, buf,
                   outOpen, progress, progress_lock, stop_event, histVars,
                   loadVars, auxVars>>

\* line 113: time.sleep starts
HbSleep ==
    /\ hb = "tosleep"
    /\ pc \in Running
    /\ hb' = "sleep"
    /\ UNCHANGED <<envVars, diskVars, pc, resume, query_ids, found_ids,
                   last_file, remaining, written, start_idx, idx, rows, buf,
                   outOpen, progress, progress_lock, stop_event, histVars,
                   loadVars, auxVars>>

\* lines 114-125: the sleep ends, the three fields are read with the lock
\* held and printed.  The lock is held for the reads only, so the reads are
\* one step taken while main does not hold it.
HbRound ==
    /\ hb = "sleep"
    /\ pc \in Running
    /\ MayRead(progress_lock)
    /\ snap' = progress
    /\ hb' = "test"
    /\ UNCHANGED <<envVars, diskVars, pc, resume, query_ids, found_ids,
                   last_file, remaining, written, start_idx, idx, rows, buf,
                   outOpen, progress, progress_lock, stop_event, histVars,
                   loadVars, stale, torn>>

Next ==
    \/ \E r \in BOOLEAN : Start(r)
    \/ LoadQueries
    \/ ListFiles
    \/ Hydrate
    \/ StartHeartbeat
    \/ OpenOut
    \/ LoopHead
    \/ ReadOk
    \/ ReadError
    \/ \E fl \in {"keep", "spill", "all"} : WriteRow(fl)
    \/ StateTruncate
    \/ StateDump
    \/ ProgLock
    \/ ProgSet
    \/ CloseOut
    \/ Report
    \/ Exit
    \/ Crash
    \/ Heartbeat

Spec == Init /\ [][Next]_vars

\* the runs with the history of stops kept, for the claims about a resumed
\* run and the run before it
SpecChained == InitChained /\ [][Next]_vars

\* the runs with the result of the previous fresh run kept, for the claim
\* about two fresh runs
SpecPaired == InitPaired /\ [][Next]_vars

\* the first run over the disk
FirstStart(r) == pc = "idle" /\ Start(r)

\* the steps of main() after its start
MainStep ==
    \/ LoadQueries
    \/ ListFiles
    \/ Hydrate
    \/ StartReporter
    \/ OpenOut
    \/ LoopHead
    \/ ReadOk
    \/ ReadError
    \/ \E fl \in {"keep"} : WriteRow(fl)
    \/ StateTruncate
    \/ StateDump
    \/ ProgLock
    \/ ProgSet
    \/ CloseOut
    \/ Report
    \/ Exit

\* the steps of the heartbeat thread
ReporterStep == HbTest \/ HbSleep \/ HbRound

NextFair ==
    \/ \E r \in BOOLEAN : FirstStart(r)
    \/ MainStep
    \/ ReporterStep

\* One run that is not killed, with the thread statement by statement and
\* lines that stay in the buffer of f until it is closed.  Both threads keep
\* being scheduled, and every read returns.
SpecFair ==
    /\ InitFair /\ [][NextFair]_vars
    /\ WF_vars(MainStep) /\ WF_vars(ReporterStep)

\* between two runs the workload file is replaced by another one
Retarget ==
    /\ pc \in {"idle", "done", "aborted"}
    /\ queries' \in {1..t : t \in 0..MaxId} \ {queries}
    /\ UNCHANGED <<bucket, dupId, diskVars, pc, memVars, histVars, loadVars, auxVars>>

NextRetarget == Next \/ Retarget

\* runs of main() over one bucket, with workloads that change between runs
SpecRetarget == Init /\ [][NextRetarget]_vars

NextTorn == Next \/ CrashTorn

\* runs of main() where a kill may leave the first part of a line in the log
SpecTorn == Init /\ [][NextTorn]_vars

\* runs that may find a state file naming a file outside the bucket
SpecStale == InitStale /\ [][Next]_vars

\* ------------------------------------------------------ load_query_ids
\* The values of a workload document, by what json.load makes of them:
\*   int n: the number n          str n: the string of n's digits
\*   float n: the number n.5      txt: the string "abc"
\*   null: None                   inf: 1e999, which json.load reads as inf
Vals ==
    [k : {"int", "str", "float"}, v : IDs] \cup [k : {"txt", "null", "inf"}, v : {0}]

\* int(wid), line 21: the value, or the exception raised
PyInt(val) ==
    CASE val.k = "int" -> [exc |-> "none", v |-> val.v]
      [] val.k = "str" -> [exc |-> "none", v |-> val.v]
      [] val.k = "float" -> [exc |-> "none", v |-> val.v]
      [] val.k = "txt" -> [exc |-> "ValueError", v |-> 0]
      [] val.k = "null" -> [exc |-> "TypeError", v |-> 0]
      [] val.k = "inf" -> [exc |-> "OverflowError", v |-> 0]

\* line 22: except (TypeError, ValueError)
Caught(exc) == exc \in {"TypeError", "ValueError"}

SeqsUpTo(S, n) == UNION {[1..m -> S] : m \in 0..n}

MainIdle ==
    /\ queries = {} /\ bucket = << >> /\ dupId = 0
    /\ outFile = << >> /\ stateFile = None /\ pc = "idle"
    /\ chained = FALSE /\ paired = FALSE
    /\ MemInit /\ HistInit /\ AuxInit

\* lines 15-17: the document is read, ids = set()
InitLoad ==
    /\ doc \in SeqsUpTo(SeqsUpTo(Vals, MaxVals), MaxKeys)
    /\ ldpc = "scan" /\ ldk = 1 /\ ldi = 1 /\ ids = {}
    /\ MainIdle

\* lines 19-23: one value of the current key
LoadValue ==
    /\ ldpc = "scan"
    /\ ldk <= Len(doc)
    /\ ldi <= Len(doc[ldk])
    /\ LET r == PyInt(doc[ldk][ldi])
       IN /\ ids' = IF r.exc = "none" THEN ids \cup {r.v} ELSE ids
          /\ ldpc' = IF r.exc = "none" \/ Caught(r.exc) THEN "scan" ELSE "raised"
    /\ ldi' = ldi + 1
    /\ UNCHANGED <<envVars, diskVars, pc, memVars, histVars, auxVars, doc, ldk>>

\* line 18: the next key of queries.values()
LoadNextKey ==
    /\ ldpc = "scan"
    /\ ldk <= Len(doc)
    /\ ldi > Len(doc[ldk])
    /\ ldk' = ldk + 1
    /\ ldi' = 1
    /\ UNCHANGED <<envVars, diskVars, pc, memVars, histVars, auxVars, doc, ldpc, ids>>

\* line 24
LoadReturn ==
    /\ ldpc = "scan"
    /\ ldk > Len(doc)
    /\ ldpc' = "done"
    /\ UNCHANGED <<envVars, diskVars, pc, memVars, histVars, auxVars, doc, ldk, ldi, ids>>

NextLoad == LoadValue \/ LoadNextKey \/ LoadReturn

SpecLoad == InitLoad /\ [][NextLoad]_vars

\* ============================================================ claims
RECURSIVE ScanFrom(_, _)
\* FoundSet of one run of the loop from position i with found IDs F, every
\* read returning its rows
ScanFrom(i, F) ==
    IF LoopEnds(i, files, Remaining(queries, F)) THEN F
    ELSE ScanFrom(i + 1, F \cup (bucket[files[i]] \cap Remaining(queries, F)))

\* FoundSet of one uninterrupted run over the files
UninterruptedFound == ScanFrom(1, {})

IsPrefix(a, b) == Len(a) <= Len(b) /\ SubSeq(b, 1, Len(a)) = a

\* C1 Resume correctness (result): a run with --resume that follows a run
\* stopped between two files, after files 1..k were completed, none of them
\* skipped by a read error while it held IDs still wanted, ends with found_ids
\* equal to the FoundSet of one uninterrupted run over the same files.
C1_ResumeResult ==
    (pc = "done" /\ resume /\ prior >= 1 /\ ~harm)
        => found_ids = UninterruptedFound

\* C2 Resume correctness (no re-read): a run with --resume that follows a run
\* stopped after files 1..k were completed reads none of the files 1..k, and
\* its first read, if any, is of file k+1.
C2_NoReRead ==
    (resume /\ prior >= 1)
        => /\ \A p \in reads : p > prior
           /\ reads # {} => prior + 1 \in reads

\* C3 Checkpoint after every file, before the next: when the loop begins the
\* read of a file, the state file names the file before it, which this run
\* processed, also when that file's table had no rows.
C3_CheckpointBeforeNext ==
    (pc = "read" /\ lastOutcome \in {"rows", "empty"})
        => stateFile = files[idx - 1]

\* C4 Checkpoint advances past a failed file: when the read of a file raised,
\* the state file names that file before the loop moves on to the next file.
C4_CheckpointPastFailed ==
    (pc = "loop" /\ lastOutcome = "error")
        => stateFile = files[idx - 1]

\* C5 Per-file failure isolation: a read error does not end the run: the
\* steps that handle it lead to the top of the loop at the next file, add
\* exactly one to files_done, and leave found_ids, remaining, written and the
\* output log (on disk and in the buffer) unchanged.
C5_FailureIsolation ==
    [][(pc \in {"read", "prog1", "prog2"} /\ lastOutcome' = "error")
        => /\ UNCHANGED <<found_ids, remaining, written, buf, outFile>>
           /\ \/ pc' = pc /\ UNCHANGED <<progress, idx>>
              \/ pc = "read" /\ pc' = "prog1" /\ UNCHANGED <<progress, idx>>
              \/ pc = "prog1" /\ pc' = "prog2" /\ idx' = idx
                 /\ progress'.files_done = progress.files_done + 1
              \/ pc = "prog2" /\ pc' = "loop" /\ idx' = idx + 1
                 /\ progress'.files_done = progress.files_done]_vars

\* a read error was handled, files_done counts it, and the loop is at the
\* next file, which it goes on to read
C5_Witness ==
    /\ pc = "read" /\ lastOutcome = "error"
    /\ progress.files_done = 1 /\ idx = 2 /\ written = 0

\* C6 Early termination: from a state in which remaining is empty the run
\* issues no read, and remaining stays empty to the end of the run, whatever
\* files are left unread.
C6_EarlyTermination ==
    [][(remaining = {} /\ pc' \notin {"idle", "load"})
        => /\ reads' = reads
           /\ pc \in {"loop", "read", "rows", "ckpt", "ckpt_w", "prog1",
                      "prog2", "close", "report", "exiting"}
                => remaining' = {}]_vars

\* the loop ended with remaining empty after a read, a file left unread
C6_Witness ==
    /\ pc = "done" /\ remaining = {} /\ reads # {}
    /\ idx <= Len(files)

\* C7 No re-writing of found records: a row is written only for an ID that
\* was not in found_ids when the read of its file was issued, hence never
\* for an ID hydrated from the output log; and every step of a run with
\* --resume keeps the lines of the output log as a prefix of the log.
C7_NoRewrite ==
    [][/\ written' = written + 1
            => Head(rows) \notin foundAtRead /\ Head(rows) \notin hydrated
       /\ (resume /\ pc \in Running) => IsPrefix(outFile, outFile')]_vars

\* a run with --resume that hydrated IDs has appended a row to the log
C7_Witness ==
    /\ resume /\ hydrated # {} /\ written >= 1
    /\ Len(outFile) > Cardinality(hydrated)

\* C8 Idempotence of fresh runs: a run without --resume that ran to
\* completion over the stable source leaves an output log with the same set
\* of IDs as the previous such run left, whatever log and state file the
\* runs in between left behind.
C8_FreshIdempotent ==
    (pc = "done" /\ ~resume /\ ~harm /\ freshPrev.set)
        => HydrateIds(outFile) = freshPrev.ids

\* a second fresh run completed; it found records and started over a state
\* file left by earlier runs
C8_Witness ==
    /\ pc = "done" /\ ~resume /\ ~harm /\ freshPrev.set
    /\ freshPrev.ids # {} /\ written >= 1 /\ stateFile # None

\* C9 Fatal configuration errors abort before any extraction: with an empty
\* target set or no parquet file the run goes no further than the check, and
\* when it stops no read was issued, the output log was neither opened nor
\* changed, the state file was not written and the reporter was not started.
C9_FatalBeforeExtraction ==
    /\ pc \in Running \ {"load"} => query_ids # {}
    /\ pc \in Running \ {"load", "list"} => files # << >>
    /\ pc \in {"load", "list", "aborted"}
        => /\ reads = {} /\ ~outOpen /\ hb = "off"
           /\ outFile = logAtStart /\ stateFile = stateAtStart

\* a run with a target set found no parquet file and stopped
C9_Witness == pc = "aborted" /\ query_ids # {} /\ files = << >>

\* the integers of the integer-coercible values of a workload document
CoercibleInts(d) ==
    {d[i][j].v : <<i, j>> \in {x \in (DOMAIN d) \X (1..MaxVals) :
        x[2] \in DOMAIN d[x[1]] /\ d[x[1]][x[2]].k \in {"int", "str", "float"}}}

\* C10 TargetSet loading: load_query_ids raises for no workload document and
\* returns exactly the integers of the integer-coercible values; the other
\* values are dropped without error.
C10_TargetSetLoading ==
    /\ ldpc # "raised"
    /\ ldpc = "done" => ids = CoercibleInts(doc)

\* C11 Output durable before checkpoint: when the state file has just been
\* written with the name of the file whose rows this run wrote, no line
\* written by this run is still in the buffer of f: all of them are in the
\* output log on disk.
C11_OutputBeforeCheckpoint ==
    (pc = "prog1" /\ lastOutcome = "rows" /\ stateFile = files[idx])
        => buf = << >>

\* C12 Atomic checkpoint write: after the process was killed, at any moment
\* of a run, the state file is absent or names a file; it is never left
\* empty or unreadable.
C12_AtomicCheckpoint ==
    pc = "idle" => stateFile # Unreadable

\* the number of files of the sorted list up to the named one
PositionOf(name) == Cardinality({n \in DOMAIN bucket : n <= name})

\* C13 Resume start position: the scan starts right after the file the state
\* file names when the run has --resume and the state file is readable and
\* names a file of the sorted list; in every other case (no --resume, no state
\* file, unreadable state file, a name outside the list) it starts at the
\* first file.  No file at or before the start position is read, and the
\* first file read is the one right after it.
C13_ResumeStart ==
    [][ /\ (pc = "hydrate" /\ pc' = "spawn")
            => start_idx' = IF resume /\ stateFile \in DOMAIN bucket
                            THEN PositionOf(stateFile) ELSE 0
        /\ pc' \in Running \ {"load", "list", "hydrate"}
            => /\ \A p \in reads' : p > start_idx'
               /\ (reads = {} /\ reads' # {}) => reads' = {start_idx' + 1}
      ]_vars

\* a resumed run started after the first file and read the second
C13_Witness ==
    /\ resume /\ last_file # None /\ start_idx = 1 /\ reads = {2}
    /\ pc = "rows"

\* C14 Set invariant: from the end of startup on, remaining is the target set
\* minus found_ids, after every row too; a row whose id was already found
\* leaves remaining and found_ids as they were and the run goes on.
C14_SetInvariant ==
    [][ /\ pc' \in (Running \ {"load", "list", "hydrate"}) \cup {"done"}
            => remaining' = query_ids' \ found_ids'
        /\ (pc = "rows" /\ written' = written + 1 /\ Head(rows) \in found_ids)
            => /\ remaining' = remaining
               /\ found_ids' = found_ids
               /\ pc' \in {"rows", "ckpt"}
      ]_vars

\* the second row of a repeated id has been processed
C14_Witness ==
    /\ pc \in {"rows", "ckpt"} /\ hydrated = {}
    /\ written = 2 /\ found_ids = {1} /\ remaining = query_ids \ {1}

\* C15 FoundSet stays within target: from the end of hydration on found_ids
\* is a subset of the target set, it only grows during a run, and at the end
\* of the run the found count is at most the target count.
C15_FoundWithinTarget ==
    [][ /\ pc' \in (Running \ {"load", "list", "hydrate"}) \cup {"done"}
            => found_ids' \subseteq query_ids'
        /\ (pc \in Running \ {"load", "list", "hydrate"} /\ pc' \in Running \cup {"done"})
            => found_ids \subseteq found_ids'
        /\ pc' = "done" => Cardinality(found_ids') <= Cardinality(query_ids')
      ]_vars

\* C16 No torn reads: the values the reporter read on a round are a state of
\* progress that main produced: files_done is 0 exactly when last_file is
\* None, else last_file is the files_done-th file of this run's scan, and
\* files_done is between 0 and files_total.
C16_NoTornReads ==
    /\ (snap.files_done = 0) <=> (snap.last_file = None)
    /\ snap.files_done > 0 => snap.last_file = files[start_idx + snap.files_done]
    /\ 0 <= snap.files_done /\ snap.files_done <= snap.files_total

\* a resumed run: the reporter read after the first file of the scan, and
\* main is now between its two writes for the second
C16_Witness ==
    /\ snap.files_done = 1 /\ snap.last_file = files[start_idx + 1]
    /\ pc = "prog2" /\ progress.files_done = 2
    /\ progress.last_file = snap.last_file

\* stop_event is set by main only, at the end of its report
StopOnlyAfterReport ==
    [][(~stop_event /\ stop_event') => (pc = "report" /\ pc' = "exiting")]_vars

\* C17 Reporter shutdown: stop_event is set only by main after
\* the loop ended and the summary was printed; when the loop has ended
\* stop_event is eventually set; once it is set the reporter exits and starts
\* no sleep.
C17_ReporterShutdown ==
    /\ StopOnlyAfterReport
    /\ (pc = "close") ~> stop_event
    /\ stop_event ~> (hb \in {"exit", "off"})
    /\ [][stop_event => ~(hb # "sleep" /\ hb' = "sleep")]_vars

\* C17 Reporter shutdown, allowing one late sleep: the same, but the reporter
\* exits at its first loop test after stop_event is set; a sleep may still
\* start after the signal when the loop test came before it.
C17_ReporterExitsAtNextTest ==
    /\ StopOnlyAfterReport
    /\ (pc = "close") ~> stop_event
    /\ stop_event ~> (hb \in {"exit", "off"})
    /\ [][(stop_event /\ hb = "test") => hb' \in {"test", "exit", "off"}]_vars

\* the signal was set and the reporter left its loop before the process ended
C17_Witness == stop_event /\ hb = "exit" /\ pc = "exiting"

\* C18 Scan order and termination: a run reads the files in strictly
\* increasing position of the sorted list, each at most once, one per step;
\* and a run past startup, every read of which returns, leaves the loop and
\* reaches the end of its report.
C18_ScanOrderAndTermination ==
    /\ [][(pc = "read" /\ pc' \in {"rows", "prog1"})
            => /\ idx \notin reads
               /\ \A p \in reads : p < idx
               /\ reads' = reads \cup {idx}]_vars
    /\ (pc = "spawn") ~> (pc = "exiting")

\* the run read both files, in order, and ended its report
C18_Witness == pc = "exiting" /\ reads = {1, 2} /\ ~resume

\* C19 Checkpoint belongs to the current output log: a run with --resume
\* that takes its start position from the state file finds there a name
\* written after the latest truncation of the output log, never one left by
\* a run from before it.
C19_CheckpointOfCurrentLog ==
    (pc = "spawn" /\ resume /\ last_file # None) => ~stale

\* C20 Output log stays hydratable: every record written out to the output
\* log is a line of its own; none is joined to the first part of a line
\* that a killed run left at the end of the log.
C20_LogHydratable ==
    \A i \in DOMAIN outFile : outFile[i] # Malformed

====
